---- MODULE Spec2Model ----
(***************************************************************************)
(* Model of sweepy: class Sweep (src/sweep.py) and class MonoSweep         *)
(* (src/monosweep.py).  One MonoSweep object driven by a single-threaded   *)
(* caller; the instrument driver (package `monochromator`) is the          *)
(* environment and answers every command nondeterministically.             *)
(***************************************************************************)
EXTENDS Integers, Sequences, FiniteSets, TLC

VARIABLES
    \* ---- attributes of the MonoSweep object (Sweep.__init__) ----
    in_progress,        \* flag: sweep in progress
    filter_changed,     \* flag: the last step() needed a filter change
    next_filter,        \* filter expected for next_wavelength
    next_wavelength,    \* wavelength the next step() commands
    wavelengths,        \* list built by set_wavelengths
    start_nm, stop_nm, step_nm,
    save_filter,        \* snapshot taken by start()
    save_wavelength,
    wavelength,         \* last wavelength the instrument acknowledged
    filter,             \* last filter the instrument acknowledged
    \* ---- observation of the most recent call (history variables) ----
    op,                 \* name of the most recent call
    ret,                \* the string it returned ("" for None)
    cmds,               \* instrument commands it issued, in order
    \* ---- history since construction ----
    sweeping,           \* start() called, and no stop()/completing step() since
    pre_filter,         \* next_filter just before the most recent start()
    pre_wavelength,     \* next_wavelength just before the most recent start()
    all_acked,          \* every instrument command so far was acknowledged
    acked_nm,           \* argument of the last acknowledged set_nm command
    acked_filter,       \* name of the last acknowledged set_filter command
    \* ---- the caller's loop "if sweep.in_progress: sweep.step()" ----
    nsteps              \* step() calls the loop has made since start()

obj == <<in_progress, filter_changed, next_filter, next_wavelength, wavelengths,
         start_nm, stop_nm, step_nm, save_filter, save_wavelength,
         wavelength, filter>>

vars == <<in_progress, filter_changed, next_filter, next_wavelength, wavelengths,
          start_nm, stop_nm, step_nm, save_filter, save_wavelength,
          wavelength, filter, op, ret, cmds, sweeping, pre_filter, pre_wavelength,
          all_acked, nsteps, acked_nm, acked_filter>>

-----------------------------------------------------------------------------
(* Bounds of the model and the inputs drawn from them.                     *)

\* stop_nm - start_nm is at most MaxSpan hundreds of nm
MaxSpan == 3

\* Sweeps start below the first band threshold (420) and step by 150nm, so
\* that a sweep commands wavelengths on both sides of 420 and of 720.
StartNms == {270}
SpanNms == {100 * j : j \in 0..MaxSpan}
StepNms == {150}

\* (start_nm, stop_nm, step_nm) with stop_nm >= start_nm and step_nm > 0,
\* the range Sweep assumes and does not validate.
SweepArgs == {<<a, a + d, s>> : a \in StartNms, d \in SpanNms, s \in StepNms}

\* Filter names a caller passes: the three bands and one unknown name.
BandNames == {"BLANK", "400nm LPF", "700nm LPF"}
FilterArgs == {"BLANK", "NOT_A_FILTER"}

\* Wavelengths a caller passes to set_nm directly.
NmArgs == {570}

-----------------------------------------------------------------------------
(* The instrument driver: what a command can come back with.               *)

\* b'  ok\r\n'
Ack == "  ok\r\n"
\* a response that is not the exact ack (one leading space)
Nak == " ok\r\n"

Returned(bytes) == [exc |-> "none", bytes |-> bytes]
Raised(e) == [exc |-> e, bytes |-> ""]

\* mon.set_nm returns bytes; mon.set_filter returns bytes or raises KeyError
NmOutcomes == {Returned(Ack), Returned(Nak)}
FilterOutcomes == {Returned(Ack), Returned(Nak), Raised("KeyError")}

FilterCmd(name, out) == [cmd |-> "set_filter", filter_name |-> name, nm |-> -1, out |-> out]
NmCmd(nm, out) == [cmd |-> "set_nm", filter_name |-> "", nm |-> nm, out |-> out]

-----------------------------------------------------------------------------
(* Pure helpers.                                                           *)

wavelength_to_start_using_400nm_LPF == 420
wavelength_to_start_using_700nm_LPF == 720

\* mutant of py_range: the range ends one step short
RECURSIVE py_range_short(_, _, _)
py_range_short(lo, hi, by) ==
    IF (by > 0 /\ lo + by < hi) \/ (by < 0 /\ lo + by > hi)
    THEN <<lo>> \o py_range_short(lo + by, hi, by)
    ELSE <<>>

\* list(range(lo, hi, by)) for by # 0 (range raises ValueError for by = 0)
RECURSIVE py_range(_, _, _)
py_range(lo, hi, by) ==
    IF (by > 0 /\ lo < hi) \/ (by < 0 /\ lo > hi)
    THEN <<lo>> \o py_range(lo + by, hi, by)
    ELSE <<>>

\* the character escapes of repr() on the bytes the model uses
RECURSIVE py_escape(_)
py_escape(b) ==
    IF Len(b) = 0 THEN ""
    ELSE LET c == SubSeq(b, 1, 1)
             e == IF c = "\r" THEN "\\r"
                  ELSE IF c = "\n" THEN "\\n"
                  ELSE c
         IN  e \o py_escape(SubSeq(b, 2, Len(b)))

\* f"{response}" for a bytes object: b'...'
py_bytes_str(b) == "b'" \o py_escape(b) \o "'"

\* the one-character string holding a backquote
Backquote == SubSeq("`'", 1, 1)

\* f"monochromator response: `{response}`"
response_str(b) ==
    "monochromator response: " \o Backquote \o py_bytes_str(b) \o Backquote

\* mutant of expect_filter: the thresholds belong to the lower band
expect_filter_inclusive(w) ==
    IF w <= wavelength_to_start_using_400nm_LPF THEN "BLANK"
    ELSE IF w <= wavelength_to_start_using_700nm_LPF THEN "400nm LPF"
    ELSE "700nm LPF"

\* step(): "Figure out which filter to use"
expect_filter(w) ==
    IF w < wavelength_to_start_using_400nm_LPF THEN "BLANK"
    ELSE IF w < wavelength_to_start_using_700nm_LPF THEN "400nm LPF"
    ELSE "700nm LPF"

\* mutant of past_stop: the completion test reads the confirmed wavelength
past_stop_confirmed(w, stop) == wavelength > stop

\* mutant of past_stop: the sweep completes on reaching stop_nm
past_stop_at_stop(w, stop) == w >= stop

\* step(): the completion test made after set_nm
past_stop(w, stop) == w > stop

\* mutant of set_filter_result: the filter is stored before the driver is asked
set_filter_result_eager(f, filter_name, out) ==
    IF out.exc = "KeyError"
    THEN [filter |-> filter_name,
          ret |-> "ERROR: unrecognized filter name: '" \o filter_name \o "'"]
    ELSE IF out.bytes = Ack
    THEN [filter |-> filter_name,
          ret |-> "Filter set to '" \o filter_name \o "'."]
    ELSE [filter |-> filter_name,
          ret |-> response_str(out.bytes)]

\* mutant of set_filter_result: a move that is not acknowledged leaves the
\* filter position unknown
set_filter_result_forgets(f, filter_name, out) ==
    IF out.exc = "KeyError"
    THEN [filter |-> f,
          ret |-> "ERROR: unrecognized filter name: '" \o filter_name \o "'"]
    ELSE IF out.bytes = Ack
    THEN [filter |-> filter_name,
          ret |-> "Filter set to '" \o filter_name \o "'."]
    ELSE [filter |-> "UNKNOWN",
          ret |-> response_str(out.bytes)]

\* set_filter(filter_name) with the driver answering out, called when the
\* confirmed filter is f: the new confirmed filter and the returned string
set_filter_result(f, filter_name, out) ==
    IF out.exc = "KeyError"
    THEN [filter |-> f,
          ret |-> "ERROR: unrecognized filter name: '" \o filter_name \o "'"]
    ELSE IF out.bytes = Ack
    THEN [filter |-> filter_name,
          ret |-> "Filter set to '" \o filter_name \o "'."]
    ELSE [filter |-> f,
          ret |-> response_str(out.bytes)]

\* mutant of set_nm_result: the wavelength is stored whatever the response
set_nm_result_unchecked(w, nm, out) ==
    IF out.bytes = Ack
    THEN [wavelength |-> nm,
          ret |-> "Wavelength: " \o ToString(nm) \o "nm."]
    ELSE [wavelength |-> nm,
          ret |-> response_str(out.bytes)]

\* set_nm(nm) with the driver answering out, called when the confirmed
\* wavelength is w: the new confirmed wavelength and the returned string
set_nm_result(w, nm, out) ==
    IF out.bytes = Ack
    THEN [wavelength |-> nm,
          ret |-> "Wavelength: " \o ToString(nm) \o "nm."]
    ELSE [wavelength |-> w,
          ret |-> response_str(out.bytes)]

\* Sweep.start(): the status string
start_status ==
    "Scan: " \o ToString(start_nm) \o "nm to " \o ToString(stop_nm) \o "nm in "
    \o ToString(step_nm) \o "nm steps. Moving filter..."

-----------------------------------------------------------------------------
(* Construction.                                                           *)

\* MonoSweep(usb_handle, start_nm, stop_nm, step_nm, next_wavelength,
\* next_filter): the object after construction
construct(lo, hi, by, nw, nf) ==
    /\ in_progress = FALSE
    /\ filter_changed = FALSE
    /\ next_filter = nf
    /\ next_wavelength = nw
    /\ wavelengths = py_range(lo, hi + by, by)
    /\ start_nm = lo
    /\ stop_nm = hi
    /\ step_nm = by
    /\ save_filter = nf
    /\ save_wavelength = nw
    /\ wavelength = 0
    /\ filter = "UNKNOWN"
    /\ op = "__init__"
    /\ ret = ""
    /\ cmds = <<>>
    /\ sweeping = FALSE
    /\ pre_filter = "none"
    /\ pre_wavelength = -1
    /\ all_acked = TRUE
    /\ nsteps = 0
    /\ acked_nm = 0
    /\ acked_filter = "UNKNOWN"

\* next_wavelength / next_filter passed to the constructor
InitNms == {570}
InitFilters == {"BLANK"}

Init ==
    \E args \in SweepArgs, nw \in InitNms, nf \in InitFilters :
        construct(args[1], args[2], args[3], nw, nf)

-----------------------------------------------------------------------------
(* The calls.                                                              *)

\* mutant of start: the viewing conditions are not saved
start_without_snapshot ==
    /\ in_progress' = TRUE
    /\ next_wavelength' = start_nm
    /\ ret' = start_status
    /\ op' = "start"
    /\ cmds' = <<>>
    /\ sweeping' = TRUE
    /\ pre_filter' = next_filter
    /\ pre_wavelength' = next_wavelength
    /\ UNCHANGED <<filter_changed, next_filter, wavelengths, start_nm, stop_nm,
                   step_nm, wavelength, filter, save_filter, save_wavelength>>

\* mutant of start: the filter for start_nm is resolved by start()
start_resolves_filter ==
    /\ in_progress' = TRUE
    /\ save_filter' = next_filter
    /\ save_wavelength' = next_wavelength
    /\ next_wavelength' = start_nm
    /\ next_filter' = expect_filter(start_nm)
    /\ ret' = start_status
    /\ op' = "start"
    /\ cmds' = <<>>
    /\ sweeping' = TRUE
    /\ pre_filter' = next_filter
    /\ pre_wavelength' = next_wavelength
    /\ UNCHANGED <<filter_changed, wavelengths, start_nm, stop_nm,
                   step_nm, wavelength, filter>>

start ==
    /\ in_progress' = TRUE
    /\ save_filter' = next_filter
    /\ save_wavelength' = next_wavelength
    /\ next_wavelength' = start_nm
    /\ ret' = start_status
    /\ op' = "start"
    /\ cmds' = <<>>
    /\ sweeping' = TRUE
    /\ pre_filter' = next_filter
    /\ pre_wavelength' = next_wavelength
    /\ UNCHANGED <<filter_changed, next_filter, wavelengths, start_nm, stop_nm,
                   step_nm, wavelength, filter>>

\* mutant of stop: stopping also clears the filter-change flag
stop_resets_flag ==
    /\ in_progress' = FALSE
    /\ next_filter' = save_filter
    /\ next_wavelength' = save_wavelength
    /\ filter_changed' = FALSE
    /\ ret' = ""
    /\ op' = "stop"
    /\ cmds' = <<>>
    /\ sweeping' = FALSE
    /\ UNCHANGED <<wavelengths, start_nm, stop_nm, step_nm,
                   save_filter, save_wavelength, wavelength, filter,
                   pre_filter, pre_wavelength>>

\* mutant of stop: the saved filter is not restored
stop_keeps_filter ==
    /\ in_progress' = FALSE
    /\ next_wavelength' = save_wavelength
    /\ ret' = ""
    /\ op' = "stop"
    /\ cmds' = <<>>
    /\ sweeping' = FALSE
    /\ UNCHANGED <<filter_changed, next_filter, wavelengths, start_nm, stop_nm,
                   step_nm, save_filter, save_wavelength, wavelength, filter,
                   pre_filter, pre_wavelength>>

stop ==
    /\ in_progress' = FALSE
    /\ next_filter' = save_filter
    /\ next_wavelength' = save_wavelength
    /\ ret' = ""
    /\ op' = "stop"
    /\ cmds' = <<>>
    /\ sweeping' = FALSE
    /\ UNCHANGED <<filter_changed, wavelengths, start_nm, stop_nm, step_nm,
                   save_filter, save_wavelength, wavelength, filter,
                   pre_filter, pre_wavelength>>

\* mutant of set_wavelengths_call: a new range rewinds the sweep to its start
set_wavelengths_call_rewinds(lo, hi, by) ==
    /\ wavelengths' = py_range(lo, hi + by, by)
    /\ start_nm' = lo
    /\ stop_nm' = hi
    /\ step_nm' = by
    /\ next_wavelength' = lo
    /\ ret' = ""
    /\ op' = "set_wavelengths"
    /\ cmds' = <<>>
    /\ UNCHANGED <<in_progress, filter_changed, next_filter,
                   save_filter, save_wavelength, wavelength, filter,
                   sweeping, pre_filter, pre_wavelength>>

\* mutant of set_wavelengths_call: a new range ends the sweep in progress
set_wavelengths_call_aborts(lo, hi, by) ==
    /\ wavelengths' = py_range(lo, hi + by, by)
    /\ start_nm' = lo
    /\ stop_nm' = hi
    /\ step_nm' = by
    /\ in_progress' = FALSE
    /\ ret' = ""
    /\ op' = "set_wavelengths"
    /\ cmds' = <<>>
    /\ UNCHANGED <<filter_changed, next_filter, next_wavelength,
                   save_filter, save_wavelength, wavelength, filter,
                   sweeping, pre_filter, pre_wavelength>>

set_wavelengths_call(lo, hi, by) ==
    /\ wavelengths' = py_range(lo, hi + by, by)
    /\ start_nm' = lo
    /\ stop_nm' = hi
    /\ step_nm' = by
    /\ ret' = ""
    /\ op' = "set_wavelengths"
    /\ cmds' = <<>>
    /\ UNCHANGED <<in_progress, filter_changed, next_filter, next_wavelength,
                   save_filter, save_wavelength, wavelength, filter,
                   sweeping, pre_filter, pre_wavelength>>

set_wavelengths ==
    \E args \in SweepArgs : set_wavelengths_call(args[1], args[2], args[3])

set_filter ==
    \E filter_name \in FilterArgs, out \in FilterOutcomes :
        LET r == set_filter_result(filter, filter_name, out) IN
        /\ filter' = r.filter
        /\ ret' = r.ret
        /\ op' = "set_filter"
        /\ cmds' = <<FilterCmd(filter_name, out)>>
        /\ UNCHANGED <<in_progress, filter_changed, next_filter, next_wavelength,
                       wavelengths, start_nm, stop_nm, step_nm, save_filter,
                       save_wavelength, wavelength, sweeping, pre_filter,
                       pre_wavelength>>

set_nm ==
    \E nm \in NmArgs, out \in NmOutcomes :
        LET r == set_nm_result(wavelength, nm, out) IN
        /\ wavelength' = r.wavelength
        /\ ret' = r.ret
        /\ op' = "set_nm"
        /\ cmds' = <<NmCmd(nm, out)>>
        /\ UNCHANGED <<in_progress, filter_changed, next_filter, next_wavelength,
                       wavelengths, start_nm, stop_nm, step_nm, save_filter,
                       save_wavelength, filter, sweeping, pre_filter,
                       pre_wavelength>>

\* mutant of step_cmds: the grating is commanded before the filter wheel
step_cmds_grating_first(c1, c2) == c2 \o c1

\* step(): the filter wheel is commanded (c1), then the grating (c2)
step_cmds(c1, c2) == c1 \o c2

\* mutant of restore_cmds: the grating is restored before the filter wheel
restore_cmds_grating_first(name, nm, o3, o4) ==
    <<NmCmd(nm, o4), FilterCmd(name, o3)>>

\* step(), after stop(): set_filter(name), then set_nm(nm)
restore_cmds(name, nm, o3, o4) ==
    <<FilterCmd(name, o3), NmCmd(nm, o4)>>

\* mutant of step_next_filter: the expected filter is found but not stored
step_next_filter_stale(nf, expect) == nf

\* step(): "if self.next_filter != expect: ... self.next_filter = expect"
step_next_filter(nf, expect) == IF nf # expect THEN expect ELSE nf

\* step() with the driver answering o1 (band filter change, if one is made),
\* o2 (grating move), o3 and o4 (filter and grating restore, if the sweep is
\* past stop_nm)
step_with(o1, o2, o3, o4) ==
    LET expect == expect_filter(next_wavelength)
        changed == next_filter # expect
        nf == step_next_filter(next_filter, expect)
        r1 == set_filter_result(filter, nf, o1)
        f1 == IF changed THEN r1.filter ELSE filter
        c1 == IF changed THEN <<FilterCmd(nf, o1)>> ELSE <<>>
        r2 == set_nm_result(wavelength, next_wavelength, o2)
        c2 == <<NmCmd(next_wavelength, o2)>>
        status == "Filter: " \o nf \o ", Wavelength: "
                  \o ToString(next_wavelength) \o "nm"
        r3 == set_filter_result(f1, save_filter, o3)
        r4 == set_nm_result(r2.wavelength, save_wavelength, o4)
    IN  /\ filter_changed' = changed
        /\ IF past_stop(next_wavelength, stop_nm)
           THEN /\ in_progress' = FALSE
                /\ next_filter' = save_filter
                /\ next_wavelength' = save_wavelength
                /\ filter' = r3.filter
                /\ wavelength' = r4.wavelength
                /\ cmds' = step_cmds(c1, c2)
                            \o restore_cmds(save_filter, save_wavelength, o3, o4)
                /\ ret' = r4.ret
           ELSE /\ in_progress' = in_progress
                /\ next_filter' = nf
                /\ next_wavelength' = next_wavelength + step_nm
                /\ filter' = f1
                /\ wavelength' = r2.wavelength
                /\ cmds' = step_cmds(c1, c2)
                /\ ret' = status
        /\ op' = "step"
        /\ sweeping' = IF next_wavelength > stop_nm THEN FALSE ELSE sweeping
        /\ UNCHANGED <<wavelengths, start_nm, stop_nm, step_nm, save_filter,
                       save_wavelength, pre_filter, pre_wavelength>>

\* the driver is asked only for the commands step() issues: NoCall stands
\* for a command that is not sent
NoCall == [exc |-> "none", bytes |-> "not called"]

step ==
    \E o1 \in IF next_filter # expect_filter(next_wavelength)
              THEN FilterOutcomes ELSE {NoCall},
       o2 \in NmOutcomes,
       o3 \in IF past_stop(next_wavelength, stop_nm)
              THEN FilterOutcomes ELSE {NoCall},
       o4 \in IF past_stop(next_wavelength, stop_nm)
              THEN NmOutcomes ELSE {NoCall} :
        step_with(o1, o2, o3, o4)

\* the record of the acknowledgements, kept along with every call
Acked(c) == c.out = Returned(Ack)

\* the last command of kind k in cs that the instrument acknowledged (0: none)
last_acked(cs, k) ==
    LET I == {i \in 1..Len(cs) : cs[i].cmd = k /\ Acked(cs[i])}
    IN  IF I = {} THEN 0 ELSE CHOOSE i \in I : \A j \in I : j <= i

\* the instrument's side of a call: what it was sent and what it acknowledged
Recorded ==
    /\ all_acked' = (all_acked /\ \A i \in 1..Len(cmds') : Acked(cmds'[i]))
    /\ acked_nm' = IF last_acked(cmds', "set_nm") = 0 THEN acked_nm
                   ELSE cmds'[last_acked(cmds', "set_nm")].nm
    /\ acked_filter' = IF last_acked(cmds', "set_filter") = 0 THEN acked_filter
                       ELSE cmds'[last_acked(cmds', "set_filter")].filter_name

\* a caller making any call in any order
Next ==
    \/ start /\ Recorded /\ UNCHANGED nsteps
    \/ stop /\ Recorded /\ UNCHANGED nsteps
    \/ set_wavelengths /\ Recorded /\ UNCHANGED nsteps
    \/ set_filter /\ Recorded /\ UNCHANGED nsteps
    \/ set_nm /\ Recorded /\ UNCHANGED nsteps
    \/ step /\ Recorded /\ UNCHANGED nsteps

Spec == Init /\ [][Next]_vars

-----------------------------------------------------------------------------
(* Band selection over every wavelength near the two thresholds: objects   *)
(* constructed with next_wavelength anywhere within BandMargin of 420 or   *)
(* 720, or far from both, and stepped.                                     *)

BandMargin == 5

BandNms ==
    {0, 1000}
    \cup ((wavelength_to_start_using_400nm_LPF - BandMargin)
          .. (wavelength_to_start_using_400nm_LPF + BandMargin))
    \cup ((wavelength_to_start_using_700nm_LPF - BandMargin)
          .. (wavelength_to_start_using_700nm_LPF + BandMargin))

InitBands ==
    \E args \in SweepArgs, nw \in BandNms, nf \in BandNames :
        construct(args[1], args[2], args[3], nw, nf)

NextBands == step /\ Recorded /\ UNCHANGED nsteps

SpecBands == InitBands /\ [][NextBands]_vars

-----------------------------------------------------------------------------
(* Range construction over many (start_nm, stop_nm, step_nm): objects      *)
(* constructed with each triple of RangeArgs, then re-ranged with the      *)
(* triples the documentation uses.                                         *)

MaxRangeSpan == 12
MaxRangeStep == 5

RangeArgs ==
    {<<a, a + d, s>> : a \in {0, 300}, d \in 0..MaxRangeSpan, s \in 1..MaxRangeStep}

DocArgs == {<<300, 550, 50>>, <<300, 400, 50>>, <<350, 850, 10>>, <<350, 550, 50>>}

\* a range whose length is no multiple of the step
OddArgs == {<<300, 420, 50>>}

InitRange ==
    \E args \in RangeArgs \cup DocArgs, nw \in InitNms, nf \in InitFilters :
        construct(args[1], args[2], args[3], nw, nf)

NextRange ==
    \E args \in DocArgs \cup OddArgs :
        /\ set_wavelengths_call(args[1], args[2], args[3])
        /\ Recorded
        /\ UNCHANGED nsteps

SpecRange == InitRange /\ [][NextRange]_vars

-----------------------------------------------------------------------------
(* One sweep run by the loop of the Sweep docstring: start(), then step()  *)
(* for as long as in_progress is set, and no other call.                   *)

SweepRunArgs == SweepArgs \cup OddArgs \cup {<<300, 400, 50>>, <<300, 550, 50>>}

InitSweep ==
    \E args \in SweepRunArgs, nw \in InitNms, nf \in BandNames :
        construct(args[1], args[2], args[3], nw, nf)

sweep_start ==
    /\ op = "__init__"
    /\ start
    /\ Recorded
    /\ nsteps' = 0

sweep_step ==
    /\ op # "__init__"
    /\ in_progress
    /\ step
    /\ Recorded
    /\ nsteps' = nsteps + 1

NextSweep ==
    \/ sweep_start
    \/ sweep_step

\* the loop goes on while it can: the calls are synchronous and return
SpecSweep == InitSweep /\ [][NextSweep]_vars /\ WF_vars(NextSweep)

-----------------------------------------------------------------------------
(* Properties.                                                             *)

IsFilterCmd(c, name) == c.cmd = "set_filter" /\ c.filter_name = name
IsNmCmd(c, nm) == c.cmd = "set_nm" /\ c.nm = nm

\* the band table as the specification states it
BandOf(w) ==
    IF w < 420 THEN "BLANK"
    ELSE IF w < 720 THEN "400nm LPF"
    ELSE "700nm LPF"

\* C1: for every next_wavelength at entry to step(), the band step() requires
\* is 'BLANK' below 420, '400nm LPF' from 420 to 719 and '700nm LPF' from 720
\* on: step() records a filter change exactly when next_filter differs from
\* that band, and then the filter it commands first is that band.
C1_BandTable ==
    [][op' = "step" =>
        /\ filter_changed' = (next_filter # BandOf(next_wavelength))
        /\ filter_changed' =>
              /\ Len(cmds') >= 1
              /\ IsFilterCmd(cmds'[1], BandOf(next_wavelength))
      ]_vars

\* C1 witness: a step() entered at exactly 420 with another filter in place
\* has commanded '400nm LPF' and then 420nm.
C1_Witness ==
    /\ op = "step"
    /\ filter_changed
    /\ Len(cmds) >= 2
    /\ IsFilterCmd(cmds[1], "400nm LPF")
    /\ IsNmCmd(cmds[2], 420)

\* the list the specification states: start, start + step, ... up to stop
InclusiveList(lo, hi, by) ==
    [k \in 1..((hi - lo) \div by + 1) |-> lo + (k - 1) * by]

\* C2: after set_wavelengths(start_nm, stop_nm, step_nm) with
\* start_nm <= stop_nm and step_nm > 0, wavelengths is exactly the increasing
\* list of start_nm + k*step_nm that are <= stop_nm.
C2_InclusiveRange ==
    (op = "set_wavelengths" /\ start_nm <= stop_nm /\ step_nm > 0)
        => wavelengths = InclusiveList(start_nm, stop_nm, step_nm)

C4_StopsAfterStopNm ==
    [][(op' = "step" /\ in_progress /\ next_wavelength = stop_nm) =>
        /\ in_progress' = FALSE
        /\ next_filter' = save_filter
        /\ next_wavelength' = save_wavelength
      ]_vars

\* C5: every step() issues set_nm(next_wavelength); when it changes the
\* filter for the band, that set_filter command and its response come first
\* and the set_nm command follows it.
C5_FilterBeforeGrating ==
    [][op' = "step" =>
        IF filter_changed'
        THEN /\ Len(cmds') >= 2
             /\ IsFilterCmd(cmds'[1], BandOf(next_wavelength))
             /\ cmds'[1].out \in FilterOutcomes
             /\ IsNmCmd(cmds'[2], next_wavelength)
        ELSE /\ Len(cmds') >= 1
             /\ IsNmCmd(cmds'[1], next_wavelength)
      ]_vars

\* C5 witness: a step() that changed the filter to '700nm LPF', then moved
\* the grating to 720nm, and only then issued the two restoring commands.
C5_Witness ==
    /\ op = "step"
    /\ filter_changed
    /\ Len(cmds) = 4
    /\ IsFilterCmd(cmds[1], "700nm LPF")
    /\ IsNmCmd(cmds[2], 720)
    /\ cmds[3].cmd = "set_filter"
    /\ cmds[4].cmd = "set_nm"

\* C6: start(), in any state, sets in_progress, copies next_filter and
\* next_wavelength into save_filter and save_wavelength and sets
\* next_wavelength to start_nm; next_filter, filter_changed, the confirmed
\* wavelength and filter, the range and wavelengths are unchanged and no
\* instrument command is issued.
C6_StartEffect ==
    [][op' = "start" =>
        /\ in_progress' = TRUE
        /\ save_filter' = next_filter
        /\ save_wavelength' = next_wavelength
        /\ next_wavelength' = start_nm
        /\ cmds' = <<>>
        /\ UNCHANGED <<next_filter, filter_changed, wavelength, filter,
                       start_nm, stop_nm, step_nm, wavelengths>>
      ]_vars

\* C6 witness: start() called in the middle of a sweep, after the step to
\* 420nm changed the filter: it saved (570, '400nm LPF') and went back to
\* start_nm with the filter left as it was.
C6_Witness ==
    /\ op = "start"
    /\ in_progress
    /\ save_wavelength = 570
    /\ save_filter = "400nm LPF"
    /\ next_filter = "400nm LPF"
    /\ next_wavelength = start_nm
    /\ wavelength = 420

\* C7: a stop() after start() (whatever step() calls and instrument
\* responses came between) leaves next_filter and next_wavelength as they
\* were just before that start(), with in_progress false; and a stop() right
\* after a stop() changes nothing.
C7_RoundTrip ==
    [][op' = "stop" =>
        /\ pre_wavelength # -1 =>
              /\ next_filter' = pre_filter
              /\ next_wavelength' = pre_wavelength
              /\ in_progress' = FALSE
        /\ op = "stop" => obj' = obj
      ]_vars

\* C7 witness: start() at (570, 'BLANK'), steps that moved the instrument to
\* 420nm behind '400nm LPF', then stop(): (570, 'BLANK') is back.
C7_Witness ==
    /\ op = "stop"
    /\ ~in_progress
    /\ pre_wavelength = 570
    /\ pre_filter = "BLANK"
    /\ next_wavelength = 570
    /\ next_filter = "BLANK"
    /\ filter_changed
    /\ wavelength = 420
    /\ filter = "400nm LPF"

\* C8: set_filter(name) on which the driver raises KeyError returns a string
\* beginning "ERROR:" and leaves filter and every other field unchanged.
C8_UnknownFilter ==
    [][(op' = "set_filter" /\ cmds'[1].out.exc = "KeyError") =>
        /\ Len(ret') >= 6
        /\ SubSeq(ret', 1, 6) = "ERROR:"
        /\ obj' = obj
      ]_vars

\* C8 witness: set_filter('NOT_A_FILTER') failed with KeyError while the
\* confirmed filter was 'BLANK', and it still is.
C8_Witness ==
    /\ op = "set_filter"
    /\ cmds[1].filter_name = "NOT_A_FILTER"
    /\ cmds[1].out.exc = "KeyError"
    /\ ret = "ERROR: unrecognized filter name: 'NOT_A_FILTER'"
    /\ filter = "BLANK"

\* t occurs in s
Contains(s, t) ==
    \E i \in 1..(Len(s) - Len(t) + 1) : SubSeq(s, i, i + Len(t) - 1) = t

\* C9: set_nm(nm) on the exact ack returns "Wavelength: {nm}nm." and sets
\* wavelength to nm; on any other response it returns a string with the
\* prefix "monochromator response: " that shows the response, and leaves
\* wavelength unchanged; no other field changes either way.
C9_SetNm ==
    [][op' = "set_nm" =>
        LET c == cmds'[1] IN
        /\ UNCHANGED <<in_progress, filter_changed, next_filter,
                       next_wavelength, wavelengths, start_nm, stop_nm,
                       step_nm, save_filter, save_wavelength, filter>>
        /\ IF c.out.bytes = "  ok\r\n"
           THEN /\ ret' = "Wavelength: " \o ToString(c.nm) \o "nm."
                /\ wavelength' = c.nm
           ELSE /\ Len(ret') >= 24
                /\ SubSeq(ret', 1, 24) = "monochromator response: "
                /\ Contains(ret', py_bytes_str(c.out.bytes))
                /\ wavelength' = wavelength
      ]_vars

\* C9 witness: set_nm(570) answered with something else than the ack while
\* the confirmed wavelength was 420: it is still 420.
C9_Witness ==
    /\ op = "set_nm"
    /\ IsNmCmd(cmds[1], 570)
    /\ cmds[1].out.bytes # "  ok\r\n"
    /\ ret = "monochromator response: " \o Backquote \o "b' ok\\r\\n'" \o Backquote
    /\ wavelength = 420

C11_RestoreCommands ==
    [][(op' = "step" /\ next_wavelength > stop_nm) =>
        LET n == Len(cmds')
            k == IF filter_changed' THEN 2 ELSE 1
        IN  /\ n = k + 2
            /\ IsNmCmd(cmds'[k], next_wavelength)
            /\ IsFilterCmd(cmds'[n - 1], save_filter)
            /\ IsNmCmd(cmds'[n], save_wavelength)
            /\ IF cmds'[n].out.bytes = "  ok\r\n"
               THEN ret' = "Wavelength: " \o ToString(save_wavelength) \o "nm."
               ELSE /\ Len(ret') >= 24
                    /\ SubSeq(ret', 1, 24) = "monochromator response: "
      ]_vars

\* C11 witness: a completing step() that needed no band change: grating to
\* 570nm (past stop_nm), then set_filter('BLANK') and set_nm(570) all the
\* same, and the string returned is that of the last set_nm.
C11_Witness ==
    /\ op = "step"
    /\ ~filter_changed
    /\ Len(cmds) = 3
    /\ IsNmCmd(cmds[1], 570)
    /\ stop_nm < 570
    /\ pre_wavelength = 570
    /\ IsFilterCmd(cmds[2], "BLANK")
    /\ IsNmCmd(cmds[3], 570)
    /\ ret = "Wavelength: 570nm."

\* C12: stop() called directly issues no instrument command and changes only
\* in_progress, next_filter and next_wavelength: the confirmed wavelength and
\* filter, the snapshot, filter_changed, the range and the wavelength list
\* are left as they were.
C12_StopFrame ==
    [][op' = "stop" =>
        /\ cmds' = <<>>
        /\ in_progress' = FALSE
        /\ next_filter' = save_filter
        /\ next_wavelength' = save_wavelength
        /\ UNCHANGED <<wavelength, filter, save_filter, save_wavelength,
                       filter_changed, start_nm, stop_nm, step_nm, wavelengths>>
      ]_vars

\* stop() in the middle of a sweep that had changed the filter: the flag and
\* the confirmed filter of the sweep survive, the expected filter is restored
C12_Witness ==
    /\ op = "stop"
    /\ cmds = <<>>
    /\ filter_changed
    /\ filter = "700nm LPF"
    /\ next_filter = "BLANK"
    /\ ~in_progress

\* C13: in every reachable state the confirmed wavelength is the argument of
\* the most recent acknowledged set_nm command (0 if none was acknowledged)
\* and the confirmed filter is the name of the most recent acknowledged
\* set_filter command ('UNKNOWN' if none), whatever set_nm, set_filter and
\* step() were answered.
C13_ConfirmedIsLastAcked ==
    /\ wavelength = acked_nm
    /\ filter = acked_filter

\* a step() whose filter change was refused and whose set_nm was acknowledged,
\* after an earlier acknowledged set_filter: the filter of the earlier command
\* stands and the wavelength is the new one
C13_Witness ==
    /\ op = "step"
    /\ Len(cmds) = 2
    /\ IsFilterCmd(cmds[1], "400nm LPF") /\ ~Acked(cmds[1])
    /\ IsNmCmd(cmds[2], 420) /\ Acked(cmds[2])
    /\ filter = "BLANK"
    /\ wavelength = 420

\* C14: in every step() call the band-change set_filter command is issued if
\* and only if the band required for next_wavelength differs from next_filter
\* at entry, and filter_changed records exactly that comparison; the command
\* names the required band, it is the only command before
\* set_nm(next_wavelength), next_filter is the required band once the grating
\* has been commanded, and a step() in the band of the step() before it
\* issues no filter command.
C14_FilterChangeIffBandDiffers ==
    [][op' = "step" =>
        LET need == BandOf(next_wavelength)
            differs == next_filter # need
            k == IF differs THEN 2 ELSE 1
            completing == next_wavelength > stop_nm
        IN  /\ filter_changed' = differs
            /\ Len(cmds') = k + (IF completing THEN 2 ELSE 0)
            /\ differs => IsFilterCmd(cmds'[1], need)
            /\ IsNmCmd(cmds'[k], next_wavelength)
            /\ ~completing => next_filter' = need
            /\ (/\ op = "step"
                /\ Len(cmds) <= 2
                /\ BandOf(cmds[Len(cmds)].nm) = need) => ~differs
      ]_vars

\* the second step() in the 400nm LPF band: the grating alone is commanded
C14_Witness ==
    /\ op = "step"
    /\ in_progress
    /\ ~filter_changed
    /\ Len(cmds) = 1
    /\ IsNmCmd(cmds[1], 570)
    /\ next_filter = "400nm LPF"

C16_PreSweepRestored ==
    (/\ op = "step"
     /\ Len(cmds) >= 3
     /\ pre_wavelength # -1
     /\ Acked(cmds[Len(cmds) - 1])
     /\ Acked(cmds[Len(cmds)]))
    => /\ filter = pre_filter
       /\ wavelength = pre_wavelength
       /\ next_filter = pre_filter
       /\ next_wavelength = pre_wavelength

\* a sweep started in the middle of another one, run to completion: the
\* filter and wavelength the first sweep had moved on to are restored
C16_Witness ==
    /\ op = "step"
    /\ Len(cmds) >= 3
    /\ Acked(cmds[Len(cmds) - 1])
    /\ Acked(cmds[Len(cmds)])
    /\ pre_filter = "400nm LPF"
    /\ filter = "400nm LPF"
    /\ next_filter = "400nm LPF"
    /\ wavelength = pre_wavelength
    /\ next_wavelength = pre_wavelength
    /\ pre_wavelength > 0

\* C17: with every instrument command acknowledged, after each non-completing
\* step() of a sweep begun by start() the confirmed filter is the band
\* required for the confirmed wavelength, whatever next_filter the object was
\* built with and whatever start_nm is.
C17_FilterMatchesWavelength ==
    (op = "step" /\ in_progress /\ all_acked) => filter = BandOf(wavelength)

\* the set_nm commands among cs
NmCmds(cs) == {i \in 1..Len(cs) : cs[i].cmd = "set_nm"}

\* C18: between start() and the completing step(), with start_nm <= stop_nm,
\* step_nm > 0 and no other call, the k-th step() commands
\* start_nm + (k - 1) * step_nm to the grating and nothing else, which is the
\* k-th element of wavelengths while the list lasts; the sweep completes only
\* once every element has been commanded, and the only wavelengths commanded
\* outside the list are at most one value above stop_nm and, after it, the
\* completing step()'s restore of save_wavelength.
C18_OrderedTraversal ==
    [][op' = "step" =>
        LET k == nsteps'
            n == Len(wavelengths)
            at == IF filter_changed' THEN 2 ELSE 1
        IN  /\ IsNmCmd(cmds'[at], start_nm + (k - 1) * step_nm)
            /\ k <= n + 1
            /\ k <= n => cmds'[at].nm = wavelengths[k]
            /\ k = n + 1 => cmds'[at].nm > stop_nm /\ ~in_progress'
            /\ IF in_progress'
               THEN NmCmds(cmds') = {at}
               ELSE /\ k >= n
                    /\ NmCmds(cmds') = {at, Len(cmds')}
                    /\ at < Len(cmds')
                    /\ IsNmCmd(cmds'[Len(cmds')], save_wavelength)
      ]_vars

\* the step() after the last element of [270, 420, 570]: 720, then the restore
C18_Witness ==
    /\ op = "step"
    /\ nsteps = 4
    /\ wavelengths = <<270, 420, 570>>
    /\ Len(cmds) = 4
    /\ IsNmCmd(cmds[2], 720)
    /\ IsNmCmd(cmds[4], save_wavelength)
    /\ ~in_progress

\* wavelengths counts from start_nm in steps of step_nm (> 0), as far as the
\* last value below stop_nm + step_nm
RangeOfFields ==
    LET n == Len(wavelengths)
    IN  /\ \A i \in 1..n : /\ wavelengths[i] = start_nm + (i - 1) * step_nm
                           /\ wavelengths[i] < stop_nm + step_nm
        /\ start_nm + n * step_nm >= stop_nm + step_nm

\* C19: in every reachable state wavelengths is the list for the current
\* start_nm, stop_nm and step_nm; start(), stop(), step(), set_filter() and
\* set_nm() change none of the four, and set_wavelengths() changes nothing
\* else, also in the middle of a sweep.
C19_WavelengthsConsistent ==
    /\ []RangeOfFields
    /\ [][/\ op' # "set_wavelengths" =>
                UNCHANGED <<wavelengths, start_nm, stop_nm, step_nm>>
          /\ op' = "set_wavelengths" =>
                /\ cmds' = <<>>
                /\ UNCHANGED <<next_wavelength, next_filter, in_progress,
                               save_filter, save_wavelength, wavelength,
                               filter, filter_changed>>
         ]_vars

\* a shorter range set in the middle of a sweep: the sweep is still in
\* progress and its next wavelength, already past the new stop_nm, stands
C19_Witness ==
    /\ op = "set_wavelengths"
    /\ in_progress
    /\ wavelengths = <<270>>
    /\ stop_nm = 270
    /\ next_wavelength = 570
    /\ wavelength = 420

====
